---------------------------- MODULE Spec2Model ----------------------------
(***************************************************************************)
(* A model of the log analyzer of src/main.go: the line parser (parseLine, *)
(* parseJSON, parseWithPattern, parseGeneric, inferLogLevel), the filter   *)
(* (filterEntries, matchesFilters), head/tail, the statistics report       *)
(* (showStats, printTopMap) and the follow loop (followFile).              *)
(*                                                                         *)
(* A Go string is modelled as the sequence of its characters, each a       *)
(* one-character TLA+ string, so that prefixes, substrings, case mapping   *)
(* and the regular expressions are computed character by character.        *)
(***************************************************************************)
EXTENDS Integers, Sequences, FiniteSets, TLC

VARIABLES
    pc,         \* where the run is: "parse", "filter", "report", ...
    format,     \* the -format flag
    file,       \* the log file: the sequence of its lines
    scanned,    \* how many lines of the file the bufio.Scanner has returned
    entries,    \* la.entries
    filters,    \* la.filters
    filtered,   \* filteredEntries of main
    flags,      \* the -stats, -head and -tail flags
    report,     \* what showStats computed and printed
    out,        \* the records handed to outputEntries, in order
    line,       \* the argument of a single parseLine / inferLogLevel call
    entry,      \* its result
    scanErr     \* the sticky error (io.EOF) of the follow loop's bufio.Scanner

vars == <<pc, format, file, scanned, entries, filters, filtered, flags,
          report, out, line, entry, scanErr>>

----------------------------------------------------------------------------
(* Characters and strings.                                                 *)

LowerAlpha == <<"a","b","c","d","e","f","g","h","i","j","k","l","m",
                "n","o","p","q","r","s","t","u","v","w","x","y","z">>
UpperAlpha == <<"A","B","C","D","E","F","G","H","I","J","K","L","M",
                "N","O","P","Q","R","S","T","U","V","W","X","Y","Z">>
DigitChars == <<"0","1","2","3","4","5","6","7","8","9">>

IsLower(c) == \E i \in 1..26 : LowerAlpha[i] = c
IsUpper(c) == \E i \in 1..26 : UpperAlpha[i] = c
\* regexp \d, and isDigit of package time
IsDigit(c) == \E i \in 1..10 : DigitChars[i] = c
DigitVal(c) == (CHOOSE i \in 1..10 : DigitChars[i] = c) - 1
\* regexp \s : [\t\n\f\r ]; the lines of a file hold no \n
IsSpace(c) == c \in {" ", "\t", "\r", "\f"}
IsNotSpace(c) == ~IsSpace(c)
\* regexp \w : [0-9A-Za-z_]
IsWord(c) == IsLower(c) \/ IsUpper(c) \/ IsDigit(c) \/ c = "_"

ToUpperChar(c) == IF IsLower(c) THEN UpperAlpha[CHOOSE i \in 1..26 : LowerAlpha[i] = c] ELSE c
ToLowerChar(c) == IF IsUpper(c) THEN LowerAlpha[CHOOSE i \in 1..26 : UpperAlpha[i] = c] ELSE c
\* strings.ToUpper, strings.ToLower
ToUpper(s) == [i \in 1..Len(s) |-> ToUpperChar(s[i])]
ToLower(s) == [i \in 1..Len(s) |-> ToLowerChar(s[i])]

\* s[i:j] of Go with 1-based i and exclusive j, i.e. the characters i..j-1
Slice(s, i, j) == SubSeq(s, i, j - 1)
\* s[i:] of Go with 1-based i
From(s, i) == SubSeq(s, i, Len(s))

\* strings.HasPrefix
HasPrefix(s, p) == Len(s) >= Len(p) /\ SubSeq(s, 1, Len(p)) = p
\* whether sub occurs in s at position i
OccursAt(s, sub, i) == i + Len(sub) - 1 <= Len(s) /\ SubSeq(s, i, i + Len(sub) - 1) = sub
\* strings.Contains
Contains(s, sub) == \E i \in 1..(Len(s) + 1) : OccursAt(s, sub, i)

\* strings.TrimSpace
TrimSpace(s) ==
    LET keep == {i \in 1..Len(s) : ~IsSpace(s[i])}
    IN  IF keep = {} THEN <<>>
        ELSE LET lo == CHOOSE i \in keep : \A k \in keep : i <= k
                 hi == CHOOSE i \in keep : \A k \in keep : i >= k
             IN  SubSeq(s, lo, hi)

\* The one element of a singleton set. A value is bound as x \in {e}, and not
\* by LET, where it is used many times or handed down a recursion: TLC
\* evaluates a bound variable once, and a LET definition or an operator
\* argument at every use when it collects coverage.
The(S) == CHOOSE x \in S : TRUE

\* The character classes the patterns of logPatterns use.
InClass(cls, c) ==
    CASE cls = "d"        -> IsDigit(c)            \* \d
      [] cls = "s"        -> IsSpace(c)            \* \s
      [] cls = "S"        -> ~IsSpace(c)           \* \S
      [] cls = "w"        -> IsWord(c)             \* \w
      [] cls = "notcolon" -> c # ":"               \* [^:]
      [] cls = "notrbrak" -> c # "]"               \* [^\]]
      [] cls = "notquote" -> c # "\""              \* [^"]
      [] cls = "space"    -> c = " "

\* The end of the longest run of characters of class cls that starts at i:
\* the index of the first character at or after i outside the class
\* (Len(s) + 1 when there is none). A greedy x+ or x* whose continuation
\* cannot start with an x stops exactly there, so no backtracking arises.
RunEnd(cls, s, i) ==
    LET stops == {j \in i..(Len(s) + 1) : j = Len(s) + 1 \/ ~InClass(cls, s[j])}
    IN  CHOOSE j \in stops : \A k \in stops : j <= k

CharAt(s, i, c) == i <= Len(s) /\ s[i] = c
\* whether s[i..i+n-1] are n digits
DigitsAt(s, i, n) == i + n - 1 <= Len(s) /\ \A k \in i..(i + n - 1) : IsDigit(s[k])

----------------------------------------------------------------------------
(* The Format Registry: logPatterns, compiled by NewLogAnalyzer.           *)
(* FindStringSubmatch returns the whole match and the groups, matches[0..n],*)
(* or nil; here a function on 0..n, or NoMatch.                            *)

NoMatch == <<>>
Submatches(groups) == [k \in 0..(Len(groups) - 1) |-> groups[k + 1]]
\* len(matches)
NumMatches(m) == Cardinality(DOMAIN m)

\* ^(\d{4}-\d{2}-\d{2}\s+\d{2}:\d{2}:\d{2})\s+\[(\w+)\]\s+(.*)
MatchGeneric(s) ==
    IF ~(DigitsAt(s, 1, 4) /\ CharAt(s, 5, "-") /\ DigitsAt(s, 6, 2)
         /\ CharAt(s, 8, "-") /\ DigitsAt(s, 9, 2))
    THEN NoMatch
    ELSE
    LET a == RunEnd("s", s, 11)      \* the time starts at a
    IN  IF ~(a > 11 /\ DigitsAt(s, a, 2) /\ CharAt(s, a + 2, ":")
             /\ DigitsAt(s, a + 3, 2) /\ CharAt(s, a + 5, ":")
             /\ DigitsAt(s, a + 6, 2))
        THEN NoMatch
        ELSE
        LET b == RunEnd("s", s, a + 8)   \* the [ is at b
            c == RunEnd("w", s, b + 1)   \* the ] is at c
            d == RunEnd("s", s, c + 1)   \* the message starts at d
        IN  IF b > a + 8 /\ CharAt(s, b, "[") /\ c > b + 1
               /\ CharAt(s, c, "]") /\ d > c + 1
            THEN Submatches(<<s, Slice(s, 1, a + 8), Slice(s, b + 1, c), From(s, d)>>)
            ELSE NoMatch

\* ^(\w+\s+\d+\s+\d+:\d+:\d+) (\S+) ([^:]+): (.*)
MatchSyslog(s) ==
    LET a == RunEnd("w", s, 1)       \* month name
        b == RunEnd("s", s, a)
        c == RunEnd("d", s, b)       \* day
        d == RunEnd("s", s, c)
        e == RunEnd("d", s, d)       \* hour
        f == RunEnd("d", s, e + 1)   \* minute
        g == RunEnd("d", s, f + 1)   \* second; the space is at g
        h == RunEnd("S", s, g + 1)   \* host; the space is at h
        k == RunEnd("notcolon", s, h + 1)  \* process; the colon is at k
    IN  IF /\ a > 1 /\ b > a /\ c > b /\ d > c /\ e > d
           /\ CharAt(s, e, ":") /\ f > e + 1
           /\ CharAt(s, f, ":") /\ g > f + 1
           /\ CharAt(s, g, " ") /\ h > g + 1
           /\ CharAt(s, h, " ") /\ k > h + 1
           /\ CharAt(s, k, ":") /\ CharAt(s, k + 1, " ")
        THEN Submatches(<<s, Slice(s, 1, g), Slice(s, g + 1, h),
                          Slice(s, h + 1, k), From(s, k + 2)>>)
        ELSE NoMatch

\* The part the two access-log patterns share, from position 1:
\*   ^(\S+) <mid> \[([^\]]+)\] "([^"]*)" (\d+) (\d+)
\* where mid is \S+ \S+ (apache) or the literal - - (nginx). The result is
\* the groups and the index after the match, or NoMatch.
MatchAccessHead(s, literalDashes) ==
    LET a  == RunEnd("S", s, 1)           \* client; space at a
        b  == RunEnd("S", s, a + 1)       \* space at b
        c  == RunEnd("S", s, b + 1)       \* space at c
        d  == RunEnd("notrbrak", s, c + 2)    \* ] at d
        e  == RunEnd("notquote", s, d + 3)    \* closing quote at e
        f  == RunEnd("d", s, e + 2)       \* status; space at f
        g  == RunEnd("d", s, f + 1)       \* size; g is after the match
        mid == IF literalDashes
               THEN b = a + 2 /\ s[a + 1] = "-" /\ c = b + 2 /\ s[b + 1] = "-"
               ELSE TRUE
    IN  IF /\ a > 1 /\ CharAt(s, a, " ") /\ b > a + 1
           /\ CharAt(s, b, " ") /\ c > b + 1
           /\ mid
           /\ CharAt(s, c, " ") /\ CharAt(s, c + 1, "[") /\ d > c + 2
           /\ CharAt(s, d, "]") /\ CharAt(s, d + 1, " ") /\ CharAt(s, d + 2, "\"")
           /\ CharAt(s, e, "\"") /\ CharAt(s, e + 1, " ") /\ f > e + 2
           /\ CharAt(s, f, " ") /\ g > f + 1
        THEN [groups |-> <<Slice(s, 1, a), Slice(s, c + 2, d), Slice(s, d + 3, e),
                           Slice(s, e + 2, f), Slice(s, f + 1, g)>>,
              end |-> g]
        ELSE NoMatch

\* ^(\S+) \S+ \S+ \[([^\]]+)\] "([^"]*)" (\d+) (\d+)
MatchApache(s) ==
    LET h == MatchAccessHead(s, FALSE)
    IN  IF h = NoMatch THEN NoMatch
        ELSE Submatches(<<Slice(s, 1, h.end)>> \o h.groups)

\* ^(\S+) - - \[([^\]]+)\] "([^"]*)" (\d+) (\d+) "([^"]*)" "([^"]*)"
MatchNginx(s) ==
    LET h == MatchAccessHead(s, TRUE)
    IN  IF h = NoMatch THEN NoMatch
        ELSE
        LET g == h.end                        \* space at g, quote at g + 1
            a == RunEnd("notquote", s, g + 2) \* closing quote of the referrer
            b == RunEnd("notquote", s, a + 3) \* closing quote of the agent
        IN  IF /\ CharAt(s, g, " ") /\ CharAt(s, g + 1, "\"")
               /\ CharAt(s, a, "\"") /\ CharAt(s, a + 1, " ")
               /\ CharAt(s, a + 2, "\"") /\ CharAt(s, b, "\"")
            THEN Submatches(<<Slice(s, 1, b + 1)>> \o h.groups
                            \o <<Slice(s, g + 2, a), Slice(s, a + 3, b)>>)
            ELSE NoMatch

\* ^\{.*\}$
MatchJSONShape(s) ==
    IF Len(s) >= 2 /\ s[1] = "{" /\ s[Len(s)] = "}"
    THEN Submatches(<<s>>) ELSE NoMatch

\* the names of logPatterns; every pattern compiles, so la.patterns has them all
PatternNames == {"apache", "nginx", "syslog", "generic", "json"}

\* la.patterns[name].FindStringSubmatch(line)
FindStringSubmatch(name, s) ==
    CASE name = "generic" -> MatchGeneric(s)
      [] name = "syslog"  -> MatchSyslog(s)
      [] name = "apache"  -> MatchApache(s)
      [] name = "nginx"   -> MatchNginx(s)
      [] name = "json"    -> MatchJSONShape(s)

----------------------------------------------------------------------------
(* time.Parse, for the layouts the program uses. A layout is the Go layout *)
(* string; the elements looked for are those these layouts hold.           *)
(* A time.Time is modelled as its instant: the days since 0001-01-01 UTC,  *)
(* the second of the day and the nanosecond; the zero Time is ZeroTime.    *)

LayoutDateTime  == <<"2","0","0","6","-","0","1","-","0","2"," ","1","5",":","0","4",":","0","5">>   \* "2006-01-02 15:04:05"
LayoutSlashDate == <<"2","0","0","6","/","0","1","/","0","2"," ","1","5",":","0","4",":","0","5">>   \* "2006/01/02 15:04:05"
LayoutSyslog    == <<"J","a","n"," ","2"," ","1","5",":","0","4",":","0","5">>   \* "Jan 2 15:04:05"
LayoutRFC3339   == <<"2","0","0","6","-","0","1","-","0","2","T","1","5",":","0","4",":","0","5","Z","0","7",":","0","0">>   \* time.RFC3339, "2006-01-02T15:04:05Z07:00"
LayoutAccessLog == <<"0","2","/","J","a","n","/","2","0","0","6",":","1","5",":","0","4",":","0","5"," ","-","0","7","0","0">>   \* "02/Jan/2006:15:04:05 -0700"

\* the layout elements, longest first where one is a prefix of another
StdChunks == << <<"2","0","0","6">>, <<"Z","0","7",":","0","0">>, <<"-","0","7","0","0">>, <<"J","a","n">>, <<"0","1">>, <<"0","2">>, <<"0","4">>, <<"0","5">>, <<"1","5">>, <<"2">> >>
StdName(k) == <<"2006", "Z07:00", "-0700", "Jan", "01", "02", "04", "05", "15", "2">>[k]

\* the element of StdChunks that starts at layout[i], or 0
StdAt(layout, i) ==
    LET hits == {k \in 1..Len(StdChunks) : OccursAt(layout, StdChunks[k], i)}
    IN  IF hits = {} THEN 0 ELSE CHOOSE k \in hits : \A h \in hits : k <= h

\* nextStdChunk: the index in the layout of the next element at or after i,
\* or Len(layout) + 1
NextStd(layout, i) ==
    LET at == {j \in i..Len(layout) : StdAt(layout, j) # 0}
    IN  IF at = {} THEN Len(layout) + 1 ELSE CHOOSE j \in at : \A k \in at : j <= k

\* skip(value, prefix): the index in value after the literal text
\* layout[li..le-1] has been matched from value[vi], or 0 (errBad). A space
\* of the layout matches any run of spaces, also an empty one at the end.
RECURSIVE Skip(_, _, _, _, _)
Skip(layout, li, le, value, vi) ==
    IF li >= le THEN vi
    ELSE IF layout[li] = " "
    THEN IF vi <= Len(value) /\ value[vi] # " " THEN 0
         ELSE Skip(layout, RunEnd("space", SubSeq(layout, 1, le - 1), li), le,
                   value, RunEnd("space", value, vi))
    ELSE IF vi > Len(value) \/ value[vi] # layout[li] THEN 0
    ELSE Skip(layout, li + 1, le, value, vi + 1)

\* getnum(s, fixed): one or two digits (two when fixed) at value[vi]
GetNum(value, vi, fixed) ==
    IF ~(vi <= Len(value) /\ IsDigit(value[vi])) THEN [ok |-> FALSE]
    ELSE IF ~(vi + 1 <= Len(value) /\ IsDigit(value[vi + 1]))
    THEN IF fixed THEN [ok |-> FALSE]
         ELSE [ok |-> TRUE, n |-> DigitVal(value[vi]), next |-> vi + 1]
    ELSE [ok |-> TRUE, n |-> DigitVal(value[vi]) * 10 + DigitVal(value[vi + 1]),
          next |-> vi + 2]

ShortMonthNames == << <<"J","a","n">>, <<"F","e","b">>, <<"M","a","r">>, <<"A","p","r">>, <<"M","a","y">>, <<"J","u","n">>, <<"J","u","l">>, <<"A","u","g">>, <<"S","e","p">>, <<"O","c","t">>, <<"N","o","v">>, <<"D","e","c">> >>

\* lookup(shortMonthNames, value): the month whose name value[vi..] starts
\* with, compared without regard to case, or 0
LookupMonth(value, vi) ==
    LET hits == {k \in 1..12 : vi + 2 <= Len(value)
                     /\ ToLower(SubSeq(value, vi, vi + 2)) = ToLower(ShortMonthNames[k])}
    IN  IF hits = {} THEN 0 ELSE CHOOSE k \in hits : TRUE

\* the value of the at most nine digits value[i..j-1], scaled to nanoseconds
\* (parseNanoseconds; digits beyond the ninth are dropped)
RECURSIVE Nanos(_, _, _, _)
Nanos(value, i, j, scale) ==
    IF i >= j \/ scale = 0 THEN 0
    ELSE DigitVal(value[i]) * scale + Nanos(value, i + 1, j, scale \div 10)

isLeap(year) == year % 4 = 0 /\ (year % 100 # 0 \/ year % 400 = 0)
daysIn(month, year) ==
    IF month = 2 THEN (IF isLeap(year) THEN 29 ELSE 28)
    ELSE IF month \in {4, 6, 9, 11} THEN 30 ELSE 31
\* days from 0001-01-01 to the first day of the year (negative for year 0)
DaysBeforeYear(year) ==
    LET y == year - 1 IN 365 * y + (y \div 4) - (y \div 100) + (y \div 400)
RECURSIVE DaysBeforeMonth(_, _)
DaysBeforeMonth(month, year) ==
    IF month <= 1 THEN 0 ELSE daysIn(month - 1, year) + DaysBeforeMonth(month - 1, year)

ZeroTime == [day |-> 0, sec |-> 0, nsec |-> 0]
\* time.Date(year, month, day, hour, min, sec, nsec, UTC) moved by -offset
\* seconds: the instant of a civil time read in a zone offset seconds east
Date(year, month, day, hour, min, sec, nsec, offset) ==
    LET d == DaysBeforeYear(year) + DaysBeforeMonth(month, year) + day - 1
        t == hour * 3600 + min * 60 + sec - offset
    IN  [day |-> d + (t \div 86400), sec |-> t % 86400, nsec |-> nsec]

IsZero(t) == t = ZeroTime
\* t.Before(u), t.After(u)
Before(t, u) ==
    \/ t.day < u.day
    \/ t.day = u.day /\ t.sec < u.sec
    \/ t.day = u.day /\ t.sec = u.sec /\ t.nsec < u.nsec
After(t, u) == Before(u, t)

\* a *time.Time of Filters: nil, or a pointer to t
NilTime == [set |-> FALSE, t |-> ZeroTime]
PtrTo(t) == [set |-> TRUE, t |-> t]

ParseFail == [ok |-> FALSE]
\* what Parse starts from: month and day default to 1, no zone offset
ParseStart == [ok |-> TRUE, year |-> 0, month |-> 1, day |-> 1, hour |-> 0,
               min |-> 0, sec |-> 0, nsec |-> 0, zoff |-> 0]

\* One layout element, named std, read from value[vi]: the fields so far
\* with the element's set and next, the index after it; or ParseFail.
ParseStd(std, value, vi, acc) ==
    CASE std = "2006" ->
            IF DigitsAt(value, vi, 4)
            THEN [acc EXCEPT !.year = DigitVal(value[vi]) * 1000 + DigitVal(value[vi + 1]) * 100
                                      + DigitVal(value[vi + 2]) * 10 + DigitVal(value[vi + 3])]
                 @@ [next |-> vi + 4]
            ELSE ParseFail
      [] std = "01" ->
            LET n == GetNum(value, vi, TRUE)
            IN  IF n.ok /\ n.n >= 1 /\ n.n <= 12
                THEN [acc EXCEPT !.month = n.n] @@ [next |-> n.next] ELSE ParseFail
      [] std = "Jan" ->
            LET m == LookupMonth(value, vi)
            IN  IF m # 0 THEN [acc EXCEPT !.month = m] @@ [next |-> vi + 3] ELSE ParseFail
      [] std \in {"02", "2"} ->
            \* any one- or two-digit day; validated against the month at the end
            LET n == GetNum(value, vi, std = "02")
            IN  IF n.ok THEN [acc EXCEPT !.day = n.n] @@ [next |-> n.next] ELSE ParseFail
      [] std = "15" ->
            LET n == GetNum(value, vi, FALSE)
            IN  IF n.ok /\ n.n < 24
                THEN [acc EXCEPT !.hour = n.n] @@ [next |-> n.next] ELSE ParseFail
      [] std = "04" ->
            LET n == GetNum(value, vi, TRUE)
            IN  IF n.ok /\ n.n < 60
                THEN [acc EXCEPT !.min = n.n] @@ [next |-> n.next] ELSE ParseFail
      [] std = "05" ->
            LET n == GetNum(value, vi, TRUE)
            IN  IF ~(n.ok /\ n.n < 60) THEN ParseFail
                ELSE IF /\ n.next + 1 <= Len(value)
                        /\ value[n.next] \in {".", ","}
                        /\ IsDigit(value[n.next + 1])
                \* a fractional second in the input that the layout does not have
                THEN LET e == RunEnd("d", value, n.next + 1)
                     IN  [acc EXCEPT !.sec = n.n,
                                     !.nsec = Nanos(value, n.next + 1, e, 100000000)]
                         @@ [next |-> e]
                ELSE [acc EXCEPT !.sec = n.n] @@ [next |-> n.next]
      [] std = "Z07:00" ->
            IF CharAt(value, vi, "Z") THEN acc @@ [next |-> vi + 1]
            ELSE IF ~(vi + 5 <= Len(value) /\ value[vi + 3] = ":") THEN ParseFail
            ELSE LET hr == GetNum(value, vi + 1, TRUE)
                     mm == GetNum(value, vi + 4, TRUE)
                 IN  IF /\ hr.ok /\ mm.ok /\ hr.n <= 24 /\ mm.n <= 60
                        /\ value[vi] \in {"+", "-"}
                     THEN [acc EXCEPT !.zoff = (IF value[vi] = "-" THEN -1 ELSE 1)
                                               * (hr.n * 60 + mm.n) * 60]
                          @@ [next |-> vi + 6]
                     ELSE ParseFail
      [] std = "-0700" ->
            IF ~(vi + 4 <= Len(value)) THEN ParseFail
            ELSE LET hr == GetNum(value, vi + 1, TRUE)
                     mm == GetNum(value, vi + 3, TRUE)
                 IN  IF /\ hr.ok /\ mm.ok /\ hr.n <= 24 /\ mm.n <= 60
                        /\ value[vi] \in {"+", "-"}
                     THEN [acc EXCEPT !.zoff = (IF value[vi] = "-" THEN -1 ELSE 1)
                                               * (hr.n * 60 + mm.n) * 60]
                          @@ [next |-> vi + 5]
                     ELSE ParseFail

\* the end of time.Parse: no text may be left and the day must exist
ParseEnd(value, vi, acc) ==
    IF vi <= Len(value) THEN ParseFail                      \* extra text
    ELSE IF acc.day < 1 \/ acc.day > daysIn(acc.month, acc.year)
    THEN ParseFail                                          \* day out of range
    ELSE acc

\* the loop of time.Parse from layout[li] and value[vi]
RECURSIVE ParseLoop(_, _, _, _, _)
ParseLoop(layout, li, value, vi, acc) ==
    The({IF v1 = 0 THEN ParseFail
         ELSE IF p > Len(layout) THEN ParseEnd(value, v1, acc)
         ELSE The({IF ~r.ok THEN ParseFail
                   ELSE The({ParseLoop(layout, p + Len(StdChunks[StdAt(layout, p)]),
                                       value, r.next, a2)
                             : a2 \in {[f \in DOMAIN acc |-> r[f]]}})
                   : r \in {ParseStd(StdName(StdAt(layout, p)), value, v1, acc)}})
         : <<p, v1>> \in {<<NextStd(layout, li),
                            Skip(layout, li, NextStd(layout, li), value, vi)>>}})

\* time.Parse(layout, value): the civil fields read, with ok = (err == nil)
Parse(layout, value) == The({ParseLoop(layout, 1, v, 1, ParseStart) : v \in {value}})
\* the Time that a successful Parse returns
TimeOf(r) == Date(r.year, r.month, r.day, r.hour, r.min, r.sec, r.nsec, r.zoff)

\* time.Now().Year() when the program runs
CurrentYear == 2024
\* t.AddDate(time.Now().Year(), 0, 0) of a Time just parsed (in UTC)
AddCurrentYear(r) ==
    Date(r.year + CurrentYear, r.month, r.day, r.hour, r.min, r.sec, r.nsec, 0)

----------------------------------------------------------------------------
(* json.Unmarshal into a map[string]interface{}, for the JSON texts the    *)
(* model reads: one object whose members are strings (without escapes),    *)
(* numbers, true, false or null; or the text null. Any other text is       *)
(* reported as a syntax error, which is what encoding/json does for every  *)
(* line of the corpus below (none holds a nested object or an array).      *)

IsJSONSpace(c) == c \in {" ", "\t", "\r", "\n"}
RECURSIVE SkipWS(_, _)
SkipWS(s, i) == IF i <= Len(s) /\ IsJSONSpace(s[i]) THEN SkipWS(s, i + 1) ELSE i

JSONFail == [ok |-> FALSE]

\* a string literal at s[i]: its text and the index after the closing quote
JSONString(s, i) ==
    IF ~CharAt(s, i, "\"") THEN JSONFail
    ELSE LET e == RunEnd("notquote", s, i + 1)
         IN  IF CharAt(s, e, "\"")
                /\ \A k \in (i + 1)..(e - 1) : s[k] \notin {"\\", "\t", "\r", "\n", "\f"}
             THEN [ok |-> TRUE, val |-> [kind |-> "string", str |-> Slice(s, i + 1, e)],
                   next |-> e + 1]
             ELSE JSONFail

\* a number at s[i]: -? (0 | [1-9][0-9]*) (. [0-9]+)?
JSONNumber(s, i) ==
    LET a == IF CharAt(s, i, "-") THEN i + 1 ELSE i
        b == RunEnd("d", s, a)
    IN  IF b = a \/ (s[a] = "0" /\ b > a + 1) THEN JSONFail
        ELSE IF CharAt(s, b, ".")
        THEN LET c == RunEnd("d", s, b + 1)
             IN  IF c = b + 1 THEN JSONFail
                 ELSE [ok |-> TRUE, val |-> [kind |-> "number"], next |-> c]
        ELSE [ok |-> TRUE, val |-> [kind |-> "number"], next |-> b]

JSONTrue  == <<"t","r","u","e">>
JSONFalse == <<"f","a","l","s","e">>
JSONNull  == <<"n","u","l","l">>

JSONValue(s, i) ==
    IF CharAt(s, i, "\"") THEN JSONString(s, i)
    ELSE IF i <= Len(s) /\ (s[i] = "-" \/ IsDigit(s[i])) THEN JSONNumber(s, i)
    ELSE IF OccursAt(s, JSONTrue, i)  THEN [ok |-> TRUE, val |-> [kind |-> "bool"], next |-> i + 4]
    ELSE IF OccursAt(s, JSONFalse, i) THEN [ok |-> TRUE, val |-> [kind |-> "bool"], next |-> i + 5]
    ELSE IF OccursAt(s, JSONNull, i)  THEN [ok |-> TRUE, val |-> [kind |-> "null"], next |-> i + 4]
    ELSE JSONFail

\* obj with key set to val (a later member of the same name replaces an earlier)
PutKey(obj, key, val) ==
    [k \in DOMAIN obj \cup {key} |-> IF k = key THEN val ELSE obj[k]]

\* the members of an object from s[i], where a key must start; obj holds the
\* members read so far
RECURSIVE JSONMembers(_, _, _)
JSONMembers(s, i, obj) ==
    The({IF ~key.ok THEN JSONFail
         ELSE IF ~CharAt(s, SkipWS(s, key.next), ":") THEN JSONFail
         ELSE The({IF ~v.ok THEN JSONFail
                   ELSE The({IF CharAt(s, d, ",")
                             THEN The({JSONMembers(s, j, o2)
                                       : <<j, o2>> \in {<<SkipWS(s, d + 1),
                                                          PutKey(obj, key.val.str, v.val)>>}})
                             ELSE IF CharAt(s, d, "}")
                             THEN [ok |-> TRUE, obj |-> PutKey(obj, key.val.str, v.val),
                                   next |-> d + 1]
                             ELSE JSONFail
                             : d \in {SkipWS(s, v.next)}})
                   : v \in {JSONValue(s, SkipWS(s, SkipWS(s, key.next) + 1))}})
         : key \in {JSONString(s, i)}})

EmptyObject == [k \in {} |-> [kind |-> "null"]]

\* json.Unmarshal([]byte(line), &jsonData): ok = (err == nil), obj = jsonData
\* (the text null leaves the map nil, which reads as an empty map)
Unmarshal(s) ==
    The({IF OccursAt(s, JSONNull, i) /\ SkipWS(s, i + 4) = Len(s) + 1
         THEN [ok |-> TRUE, obj |-> EmptyObject]
         ELSE IF ~CharAt(s, i, "{") THEN JSONFail
         ELSE The({IF r.ok /\ SkipWS(s, r.next) = Len(s) + 1
                   THEN [ok |-> TRUE, obj |-> r.obj]
                   ELSE JSONFail
                   : r \in {IF CharAt(s, SkipWS(s, i + 1), "}")
                            THEN [ok |-> TRUE, obj |-> EmptyObject,
                                  next |-> SkipWS(s, i + 1) + 1]
                            ELSE JSONMembers(s, SkipWS(s, i + 1), EmptyObject)}})
         : i \in {SkipWS(s, 1)}})

\* jsonData[key].(string): whether the key is there with a string value
HasString(obj, key) == key \in DOMAIN obj /\ obj[key].kind = "string"

KeyTimestamp == <<"t","i","m","e","s","t","a","m","p">>
KeyLevel     == <<"l","e","v","e","l">>
KeyMessage   == <<"m","e","s","s","a","g","e">>
KeyMsg       == <<"m","s","g">>
KeySource    == <<"s","o","u","r","c","e">>
KeyComponent == <<"c","o","m","p","o","n","e","n","t">>

----------------------------------------------------------------------------
(* The Line Parser.                                                        *)

EmptyString == <<>>
ERROR == <<"E","R","R","O","R">>
WARN  == <<"W","A","R","N">>
INFO  == <<"I","N","F","O">>
DEBUG == <<"D","E","B","U","G">>
FATAL == <<"F","A","T","A","L">>
CRITICAL == <<"C","R","I","T","I","C","A","L">>
WARNING == <<"W","A","R","N","I","N","G">>
TRACE == <<"T","R","A","C","E">>
KnownLevels == {ERROR, WARN, INFO, DEBUG}

\* LogEntry{Raw: line}: the other fields are the zero values
NewEntry(raw) ==
    [Timestamp |-> ZeroTime, Level |-> EmptyString, Message |-> EmptyString,
     Source |-> EmptyString, Raw |-> raw]

\* inferLogLevel with the WARN test ahead of the ERROR test
inferLogLevelWarnFirst(message) ==
    The({IF Contains(m, WARN) \/ Contains(m, WARNING) THEN WARN
         ELSE IF Contains(m, ERROR) \/ Contains(m, FATAL) \/ Contains(m, CRITICAL) THEN ERROR
         ELSE IF Contains(m, DEBUG) \/ Contains(m, TRACE) THEN DEBUG
         ELSE INFO
         : m \in {ToUpper(message)}})

\* inferLogLevel with a level of its own for FATAL
inferLogLevelFatal(message) ==
    The({IF Contains(m, FATAL) THEN FATAL
         ELSE IF Contains(m, ERROR) \/ Contains(m, CRITICAL) THEN ERROR
         ELSE IF Contains(m, WARN) \/ Contains(m, WARNING) THEN WARN
         ELSE IF Contains(m, DEBUG) \/ Contains(m, TRACE) THEN DEBUG
         ELSE INFO
         : m \in {ToUpper(message)}})

\* inferLogLevel(message)
inferLogLevel(message) ==
    The({IF Contains(m, ERROR) \/ Contains(m, FATAL) \/ Contains(m, CRITICAL) THEN ERROR
         ELSE IF Contains(m, WARN) \/ Contains(m, WARNING) THEN WARN
         ELSE IF Contains(m, DEBUG) \/ Contains(m, TRACE) THEN DEBUG
         ELSE INFO
         : m \in {ToUpper(message)}})

\* parseJSON(line)
parseJSON(ln) ==
    The({IF ~u.ok THEN [NewEntry(ln) EXCEPT !.Message = ln]
         ELSE
         LET o == u.obj
         IN  [Timestamp |-> IF HasString(o, KeyTimestamp)
                            THEN The({IF t.ok THEN TimeOf(t) ELSE ZeroTime
                                      : t \in {Parse(LayoutRFC3339, o[KeyTimestamp].str)}})
                            ELSE ZeroTime,
              Level     |-> IF HasString(o, KeyLevel)
                            THEN ToUpper(o[KeyLevel].str) ELSE EmptyString,
              Message   |-> IF HasString(o, KeyMessage) THEN o[KeyMessage].str
                            ELSE IF HasString(o, KeyMsg) THEN o[KeyMsg].str
                            ELSE EmptyString,
              Source    |-> IF HasString(o, KeySource) THEN o[KeySource].str
                            ELSE IF HasString(o, KeyComponent) THEN o[KeyComponent].str
                            ELSE EmptyString,
              Raw       |-> ln]
         : u \in {Unmarshal(ln)}})

\* the digits of d without their leading zeros
RECURSIVE StripZeros(_)
StripZeros(d) == IF Len(d) > 1 /\ d[1] = "0" THEN StripZeros(Tail(d)) ELSE d
\* the value of the digits d[1..n]
RECURSIVE DigitsValue(_, _)
DigitsValue(d, n) == IF n = 0 THEN 0 ELSE DigitsValue(d, n - 1) * 10 + DigitVal(d[n])
MaxInt64 == <<"9","2","2","3","3","7","2","0","3","6","8","5","4","7","7","5","8","0","7">>   \* 9223372036854775807
\* whether the digit strings a and b of equal length have a > b
RECURSIVE DigitsGreater(_, _)
DigitsGreater(a, b) ==
    IF a = <<>> THEN FALSE
    ELSE IF a[1] # b[1] THEN DigitVal(a[1]) > DigitVal(b[1])
    ELSE DigitsGreater(Tail(a), Tail(b))
\* strconv.Atoi of a string of digits: an error when the value is out of the
\* range of int; a value of ten digits or more is reported as 1000000000,
\* which is all that the comparisons with 400 and 500 need
Atoi(d) ==
    The({IF Len(z) > 19 \/ (Len(z) = 19 /\ DigitsGreater(z, MaxInt64)) THEN [ok |-> FALSE]
         ELSE IF Len(z) > 9 THEN [ok |-> TRUE, n |-> 1000000000]
         ELSE [ok |-> TRUE, n |-> DigitsValue(z, Len(z))]
         : z \in {StripZeros(d)}})

\* the Time of a field parsed with the layout, the zero Time when it does
\* not parse: if t, err := time.Parse(layout, field); err == nil { ... = t }
TimeOrZero(layout, field) ==
    The({IF t.ok THEN TimeOf(t) ELSE ZeroTime : t \in {Parse(layout, field)}})

\* parseWithPattern(line, patternName, matches)
parseWithPattern(ln, patternName, matches) ==
    LET e == NewEntry(ln)
    IN  CASE patternName = "generic" /\ NumMatches(matches) >= 4 ->
                [e EXCEPT !.Timestamp = TimeOrZero(LayoutDateTime, matches[1]),
                          !.Level = ToUpper(matches[2]),
                          !.Message = matches[3]]
          [] patternName = "syslog" /\ NumMatches(matches) >= 5 ->
                [e EXCEPT !.Timestamp =
                              \* the current year is added to the year 0 parsed
                              The({IF t.ok THEN AddCurrentYear(t) ELSE ZeroTime
                                   : t \in {Parse(LayoutSyslog, matches[1])}}),
                          !.Source = matches[2],
                          !.Message = matches[4],
                          !.Level = inferLogLevel(matches[4])]
          [] patternName \in {"apache", "nginx"} /\ NumMatches(matches) >= 4 ->
                [e EXCEPT !.Source = matches[1],
                          !.Timestamp = TimeOrZero(LayoutAccessLog, matches[2]),
                          !.Message = matches[3],
                          !.Level =
                              IF NumMatches(matches) < 5 THEN EmptyString
                              ELSE The({IF ~status.ok THEN EmptyString
                                        ELSE IF status.n >= 500 THEN ERROR
                                        ELSE IF status.n >= 400 THEN WARN
                                        ELSE INFO
                                        : status \in {Atoi(matches[4])}})]
          [] OTHER -> e

\* timePatterns of parseGeneric
timePatterns == <<LayoutDateTime, LayoutSlashDate, LayoutSyslog, LayoutRFC3339>>

\* the loop of parseGeneric over timePatterns[k..]: the entry once the first
\* pattern that parses the prefix of the line has been applied
RECURSIVE tryTimePatterns(_, _, _)
tryTimePatterns(ln, k, e) ==
    IF k > Len(timePatterns) THEN e
    ELSE The({IF t.ok
              THEN [e EXCEPT !.Timestamp = TimeOf(t),
                             !.Message = IF Len(ln) > Len(timePatterns[k]) + 1
                                         THEN TrimSpace(From(ln, Len(timePatterns[k]) + 2))
                                         ELSE e.Message]
              ELSE tryTimePatterns(ln, k + 1, e)
              : t \in {IF Len(ln) >= Len(timePatterns[k])
                       THEN Parse(timePatterns[k], SubSeq(ln, 1, Len(timePatterns[k])))
                       ELSE ParseFail}})

\* parseGeneric keeping the trimmed line as Raw
parseGenericTrimmedRaw(ln) ==
    The({[e EXCEPT !.Level = inferLogLevel(e.Message)]
         : e \in {tryTimePatterns(ln, 1, [NewEntry(TrimSpace(ln)) EXCEPT !.Message = ln])}})

\* parseGeneric(line)
parseGeneric(ln) ==
    The({[e EXCEPT !.Level = inferLogLevel(e.Message)]
         : e \in {tryTimePatterns(ln, 1, [NewEntry(ln) EXCEPT !.Message = ln])}})

\* the auto order with apache ahead of syslog
autoPatternsApacheFirst == <<"generic", "apache", "syslog", "nginx">>

\* the patterns that parseLine tries for a format, in order
autoPatterns == <<"generic", "syslog", "apache", "nginx">>
patternsFor(fmt) == IF fmt = "auto" THEN autoPatterns ELSE <<fmt>>

\* the loop of parseLine over patterns[k..], ending in the generic fallback
RECURSIVE tryPatterns(_, _, _)
tryPatterns(ln, patterns, k) ==
    IF k > Len(patterns) THEN parseGeneric(ln)
    ELSE The({IF matches # NoMatch THEN parseWithPattern(ln, patterns[k], matches)
              ELSE tryPatterns(ln, patterns, k + 1)
              : matches \in {IF patterns[k] \in PatternNames
                             THEN FindStringSubmatch(patterns[k], ln) ELSE NoMatch}})

\* whether parseLine hands the line to parseJSON
isJSONLine(ln, fmt) ==
    fmt = "json" \/ (fmt = "auto" /\ HasPrefix(TrimSpace(ln), <<"{">>))

\* parseLine(line, format)
parseLine(ln, fmt) ==
    IF isJSONLine(ln, fmt) THEN parseJSON(ln)
    ELSE tryPatterns(ln, patternsFor(fmt), 1)

----------------------------------------------------------------------------
(* The Filter Evaluator, head and tail.                                    *)

\* the Filters that main builds from the -level, -source, -keyword, -start
\* and -end flags (a -start or -end that does not parse ends the program
\* before anything is read: the model gives none)
mainFilters(level, source, keyword, startTime, endTime) ==
    [Level     |-> ToUpper(level),
     Source    |-> source,
     Keyword   |-> keyword,
     StartTime |-> IF startTime # EmptyString
                   THEN PtrTo(TimeOf(Parse(LayoutDateTime, startTime))) ELSE NilTime,
     EndTime   |-> IF endTime # EmptyString
                   THEN PtrTo(TimeOf(Parse(LayoutDateTime, endTime))) ELSE NilTime]

\* matchesFilters(entry), with la.filters = f
matchesFilters(e, f) ==
    IF f.Level # EmptyString /\ e.Level # f.Level THEN FALSE
    ELSE IF f.Source # EmptyString /\ ~Contains(ToLower(e.Source), ToLower(f.Source))
    THEN FALSE
    ELSE IF f.Keyword # EmptyString /\ ~Contains(ToLower(e.Message), ToLower(f.Keyword))
    THEN FALSE
    ELSE IF f.StartTime.set /\ ~IsZero(e.Timestamp) /\ Before(e.Timestamp, f.StartTime.t)
    THEN FALSE
    ELSE IF f.EndTime.set /\ ~IsZero(e.Timestamp) /\ After(e.Timestamp, f.EndTime.t)
    THEN FALSE
    ELSE TRUE

\* the loop body with -start as an exclusive bound
filterSkipsExclusiveStart(e, f) ==
    \/ f.Level # EmptyString /\ e.Level # f.Level
    \/ f.Source # EmptyString /\ ~Contains(ToLower(e.Source), ToLower(f.Source))
    \/ f.Keyword # EmptyString /\ ~Contains(ToLower(e.Message), ToLower(f.Keyword))
    \/ f.StartTime.set /\ ~IsZero(e.Timestamp) /\ ~After(e.Timestamp, f.StartTime.t)
    \/ f.EndTime.set /\ ~IsZero(e.Timestamp) /\ After(e.Timestamp, f.EndTime.t)

\* whether the loop body of filterEntries reaches a continue for the entry
filterSkips(e, f) ==
    \/ f.Level # EmptyString /\ e.Level # f.Level
    \/ f.Source # EmptyString /\ ~Contains(ToLower(e.Source), ToLower(f.Source))
    \/ f.Keyword # EmptyString /\ ~Contains(ToLower(e.Message), ToLower(f.Keyword))
    \/ f.StartTime.set /\ ~IsZero(e.Timestamp) /\ Before(e.Timestamp, f.StartTime.t)
    \/ f.EndTime.set /\ ~IsZero(e.Timestamp) /\ After(e.Timestamp, f.EndTime.t)

\* the loop putting each record it keeps in front of those kept before
RECURSIVE filterLoopPrepend(_, _, _, _)
filterLoopPrepend(es, f, k, acc) ==
    IF k > Len(es) THEN acc
    ELSE The({filterLoopPrepend(es, f, k + 1, acc2)
              : acc2 \in {IF filterSkips(es[k], f) THEN acc ELSE <<es[k]>> \o acc}})

\* the loop of filterEntries from la.entries[k], acc being filtered so far
RECURSIVE filterLoop(_, _, _, _)
filterLoop(es, f, k, acc) ==
    IF k > Len(es) THEN acc
    ELSE The({filterLoop(es, f, k + 1, acc2)
              : acc2 \in {IF filterSkips(es[k], f) THEN acc ELSE Append(acc, es[k])}})

\* filterEntries(), with la.entries = es and la.filters = f
filterEntries(es, f) == filterLoop(es, f, 1, <<>>)

\* getHead(entries, n)
getHead(es, n) == IF n >= Len(es) THEN es ELSE SubSeq(es, 1, n)
\* getTail(entries, n)
getTail(es, n) == IF n >= Len(es) THEN es ELSE SubSeq(es, Len(es) - n + 1, Len(es))

\* the listing cut with -tail taking precedence over -head
headTailTailFirst(es, head, tail) ==
    IF tail > 0 THEN getTail(es, tail)
    ELSE IF head > 0 THEN getHead(es, head)
    ELSE es

\* what main hands to outputEntries in listing mode
headTail(es, head, tail) ==
    IF head > 0 THEN getHead(es, head)
    ELSE IF tail > 0 THEN getTail(es, tail)
    ELSE es

----------------------------------------------------------------------------
(* The Aggregator: showStats and printTopMap.                              *)

\* m[key]++ on a map[string]int
Increment(m, key) ==
    [k \in DOMAIN m \cup {key} |->
        IF k = key THEN (IF key \in DOMAIN m THEN m[key] + 1 ELSE 1) ELSE m[k]]

EmptyMap == [k \in {} |-> 0]
\* LogStats{TotalLines: len(la.entries), ...}, with earliest and latest
NewStats(es) ==
    [TotalLines |-> Len(es), ErrorCount |-> 0, WarnCount |-> 0, InfoCount |-> 0,
     DebugCount |-> 0, TopSources |-> EmptyMap, TopErrors |-> EmptyMap,
     earliest |-> ZeroTime, latest |-> ZeroTime]

\* a pass of the loop that counts a Level outside the four as INFO
statsStepDefaultInfo(st, e) ==
    LET byLevel ==
            CASE e.Level = ERROR -> [st EXCEPT !.ErrorCount = @ + 1,
                                               !.TopErrors = Increment(@, e.Message)]
              [] e.Level = WARN  -> [st EXCEPT !.WarnCount = @ + 1]
              [] e.Level = DEBUG -> [st EXCEPT !.DebugCount = @ + 1]
              [] OTHER -> [st EXCEPT !.InfoCount = @ + 1]
        bySource ==
            IF e.Source # EmptyString
            THEN [byLevel EXCEPT !.TopSources = Increment(@, e.Source)] ELSE byLevel
    IN  IF IsZero(e.Timestamp) THEN bySource
        ELSE [bySource EXCEPT
                !.earliest = IF IsZero(@) \/ Before(e.Timestamp, @) THEN e.Timestamp ELSE @,
                !.latest   = IF IsZero(@) \/ After(e.Timestamp, @) THEN e.Timestamp ELSE @]

\* one pass of the loop of showStats, for the entry e
statsStep(st, e) ==
    LET byLevel ==
            CASE e.Level = ERROR -> [st EXCEPT !.ErrorCount = @ + 1,
                                               !.TopErrors = Increment(@, e.Message)]
              [] e.Level = WARN  -> [st EXCEPT !.WarnCount = @ + 1]
              [] e.Level = INFO  -> [st EXCEPT !.InfoCount = @ + 1]
              [] e.Level = DEBUG -> [st EXCEPT !.DebugCount = @ + 1]
              [] OTHER -> st
        bySource ==
            IF e.Source # EmptyString
            THEN [byLevel EXCEPT !.TopSources = Increment(@, e.Source)] ELSE byLevel
    IN  IF IsZero(e.Timestamp) THEN bySource
        ELSE [bySource EXCEPT
                !.earliest = IF IsZero(@) \/ Before(e.Timestamp, @) THEN e.Timestamp ELSE @,
                !.latest   = IF IsZero(@) \/ After(e.Timestamp, @) THEN e.Timestamp ELSE @]

RECURSIVE statsLoop(_, _, _)
statsLoop(es, k, st) ==
    IF k > Len(es) THEN st
    ELSE The({statsLoop(es, k + 1, st2) : st2 \in {statsStep(st, es[k])}})

\* the LogStats that showStats computes from the records es
computeStats(es) == statsLoop(es, 1, NewStats(es))

\* the orders in which a range over the map may yield its keys: Go leaves
\* the iteration order of a map unspecified
RECURSIVE Orders(_)
Orders(keys) ==
    IF keys = {} THEN {<<>>}
    ELSE UNION {{<<k>> \o rest : rest \in Orders(keys \ {k})} : k \in keys}

\* a less function that sorts by ascending count
topLessAscending(a, b) == a.Value < b.Value

\* the less function of printTopMap: ss[i].Value > ss[j].Value
topLess(a, b) == a.Value > b.Value

\* sort.Slice on the at most twelve elements the model gives it is an
\* insertion sort: the element x is moved down past every element of the
\* sorted prefix that it is less than.
RECURSIVE insertSorted(_, _)
insertSorted(sorted, x) ==
    IF sorted # <<>> /\ topLess(x, sorted[Len(sorted)])
    THEN The({Append(lower, sorted[Len(sorted)])
              : lower \in {insertSorted(SubSeq(sorted, 1, Len(sorted) - 1), x)}})
    ELSE Append(sorted, x)
RECURSIVE sortSlice(_, _, _)
sortSlice(ss, k, sorted) ==
    IF k > Len(ss) THEN sorted
    ELSE The({sortSlice(ss, k + 1, next) : next \in {insertSorted(sorted, ss[k])}})

TopLimit == 5
\* the lines printTopMap(m, limit) prints, when the range over m yields
\* the keys in the order given
printTopMap(m, limit, order) ==
    The({SubSeq(ss, 1, IF Len(ss) < limit THEN Len(ss) ELSE limit)
         : ss \in {sortSlice([i \in 1..Len(order) |->
                                 [Key |-> order[i], Value |-> m[order[i]]]], 1, <<>>)}})

----------------------------------------------------------------------------
(* The log lines the model reads.                                          *)

LineGeneric ==
    <<"2","0","2","4","-","0","1","-","0","1"," ","1","0",":","0","0",":","0","0"," ","[","I","N","F","O","]"," ","A","p","p","l","i","c","a","t","i","o","n"," ","s","t","a","r","t","e","d">>
    \* 2024-01-01 10:00:00 [INFO] Application started
LineGenericNotice ==
    <<"2","0","2","4","-","0","1","-","0","1"," ","1","0",":","0","0",":","0","5"," ","[","n","o","t","i","c","e","]"," ","d","i","s","k"," ","e","r","r","o","r"," ","c","l","e","a","r","e","d">>
    \* 2024-01-01 10:00:05 [notice] disk error cleared
LineGenericBadDate ==
    <<"2","0","2","4","-","1","3","-","4","5"," ","1","0",":","0","0",":","0","0"," ","[","D","E","B","U","G","]"," ","b","a","d"," ","d","a","t","e">>
    \* 2024-13-45 10:00:00 [DEBUG] bad date
LineGenericZero ==
    <<"0","0","0","1","-","0","1","-","0","1"," ","0","0",":","0","0",":","0","0"," ","[","W","A","R","N","]"," ","e","p","o","c","h">>
    \* 0001-01-01 00:00:00 [WARN] epoch
LineSyslog ==
    <<"J","a","n"," "," ","5"," ","1","0",":","0","0",":","0","1"," ","w","e","b","1"," ","s","s","h","d",":"," ","w","a","r","n","i","n","g",":"," ","t","r","a","c","e"," ","e","n","a","b","l","e","d">>
    \* Jan  5 10:00:01 web1 sshd: warning: trace enabled
LineSyslogApache ==
    <<"J","a","n"," ","5"," ","1","0",":","0","0",":","0","0"," ","[","x","]"," ","\"","G","E","T"," ","/","a","\""," ","5","0","0"," ","1","2"," ","h"," ","p",":"," ","o","k">>
    \* Jan 5 10:00:00 [x] "GET /a" 500 12 h p: ok
LineApache ==
    <<"1","2","7",".","0",".","0",".","1"," ","-"," ","-"," ","[","1","0","/","O","c","t","/","2","0","2","3",":","1","3",":","5","5",":","3","6"," ","-","0","7","0","0","]"," ","\"","G","E","T"," ","/","i","n","d","e","x",".","h","t","m","l","\""," ","2","0","0"," ","2","3","2","6">>
    \* 127.0.0.1 - - [10/Oct/2023:13:55:36 -0700] "GET /index.html" 200 2326
LineApacheHuge ==
    <<"h"," ","u"," ","-"," ","[","x","]"," ","\"","\""," ","9","9","9","9","9","9","9","9","9","9","9","9","9","9","9","9","9","9","9","9"," ","0">>
    \* h u - [x] "" 99999999999999999999 0
LineNginx ==
    <<"1","0",".","0",".","0",".","2"," ","-"," ","-"," ","[","1","0","/","O","c","t","/","2","0","2","3",":","1","3",":","5","5",":","3","7"," ","+","0","0","0","0","]"," ","\"","P","O","S","T"," ","/","a","p","i","\""," ","4","0","4"," ","1","2"," ","\"","-","\""," ","\"","c","u","r","l","\"">>
    \* 10.0.0.2 - - [10/Oct/2023:13:55:37 +0000] "POST /api" 404 12 "-" "curl"
LineJSON ==
    <<"{","\"","t","i","m","e","s","t","a","m","p","\"",":","\"","2","0","2","4","-","0","1","-","0","1","T","1","0",":","0","0",":","0","0","Z","\"",",","\"","l","e","v","e","l","\"",":","\"","e","r","r","o","r","\"",",","\"","m","e","s","s","a","g","e","\"",":","\"","b","o","o","m","\"",",","\"","s","o","u","r","c","e","\"",":","\"","d","b","\"","}">>
    \* {"timestamp":"2024-01-01T10:00:00Z","level":"error","message":"boom","source":"db"}
LineJSONFatal ==
    <<" ","{","\"","l","e","v","e","l","\"",":","\"","f","a","t","a","l","\"",",","\"","m","s","g","\"",":","\"","d","i","s","k"," ","f","u","l","l","\"",",","\"","c","o","m","p","o","n","e","n","t","\"",":","\"","f","s","\"",",","\"","n","\"",":","1","}">>
    \*  {"level":"fatal","msg":"disk full","component":"fs","n":1}
LineJSONBroken ==
    <<"{","b","r","o","k","e","n"," ","w","a","r","n">>
    \* {broken warn
LinePlain ==
    <<"p","l","a","i","n"," ","t","e","x","t"," ","f","a","t","a","l"," ","e","r","r","o","r"," ","h","e","r","e"," "," ">>
    \* plain text fatal error here (two trailing spaces)
LineSlashDate ==
    <<"2","0","2","4","/","0","1","/","0","2"," ","0","3",":","0","4",":","0","5"," ","d","e","b","u","g"," ","t","r","a","c","e">>
    \* 2024/01/02 03:04:05 debug trace
LineDatePlain ==
    <<"2","0","2","4","-","0","1","-","0","1"," ","1","0",":","0","0",":","0","0"," ","n","o"," ","b","r","a","c","k","e","t","s">>
    \* 2024-01-01 10:00:00 no brackets
LineDateOnly ==
    <<"2","0","2","4","-","0","1","-","0","1"," ","1","0",":","0","0",":","0","0">>
    \* 2024-01-01 10:00:00
LineDateChar ==
    <<"2","0","2","4","-","0","1","-","0","1"," ","1","0",":","0","0",":","0","0","X">>
    \* 2024-01-01 10:00:00X
LineDateSpaced ==
    <<"2","0","2","4","-","0","1","-","0","1"," ","1","0",":","0","0",":","0","0"," "," "," ","w","a","r","n"," ","l","a","t","e"," "," ">>
    \* 2024-01-01 10:00:00   warn late (three spaces before, two after)
LineRFC3339 ==
    <<"2","0","2","4","-","0","1","-","0","1","T","1","0",":","0","0",":","0","0","+","0","2",":","0","0"," ","c","r","i","t","i","c","a","l"," ","f","a","i","l","u","r","e">>
    \* 2024-01-01T10:00:00+02:00 critical failure
LineEmpty ==
    <<>>
    \* (the empty line)

Corpus == {LineGeneric,
           LineGenericNotice,
           LineGenericBadDate,
           LineGenericZero,
           LineSyslog,
           LineSyslogApache,
           LineApache,
           LineApacheHuge,
           LineNginx,
           LineJSON,
           LineJSONFatal,
           LineJSONBroken,
           LinePlain,
           LineSlashDate,
           LineDatePlain,
           LineDateOnly,
           LineDateChar,
           LineDateSpaced,
           LineRFC3339,
           LineEmpty}

\* the values of the -format flag: the documented ones and an unknown name
Formats == {"auto", "json", "generic", "syslog", "apache", "nginx", "custom"}

----------------------------------------------------------------------------
(* One call of parseLine: the specification SpecParse.                     *)

NoEntry == [none |-> TRUE]
NoFilters == [Level |-> EmptyString, Source |-> EmptyString, Keyword |-> EmptyString,
              StartTime |-> NilTime, EndTime |-> NilTime]
NoFlags == [stats |-> FALSE, head |-> 0, tail |-> 0]
NoReport == [none |-> TRUE]

\* the variables of the run of main, when a specification does not use them
MainIdle ==
    /\ file = <<>> /\ scanned = 0 /\ entries = <<>> /\ filters = NoFilters
    /\ filtered = <<>> /\ flags = NoFlags /\ report = NoReport /\ out = <<>>
    /\ scanErr = FALSE

InitParse ==
    /\ pc = "call"
    /\ line \in Corpus
    /\ format \in Formats
    /\ entry = NoEntry
    /\ MainIdle

\* entry := la.parseLine(line, format)
ParseLineCall ==
    /\ pc = "call"
    /\ entry' = parseLine(line, format)
    /\ pc' = "returned"
    /\ UNCHANGED <<format, file, scanned, entries, filters, filtered, flags,
                   report, out, line, scanErr>>

NextParse == ParseLineCall

SpecParse == InitParse /\ [][NextParse]_vars

----------------------------------------------------------------------------
(* One call of inferLogLevel: the specification SpecInfer. The messages    *)
(* are the concatenations of at most MaxTokens of the Tokens, so that a    *)
(* keyword may also arise across two of them ("err" and "or ").            *)

MaxTokens == 2
Tokens == {<<"e","r","r","o","r">>,
           <<"F","A","T","A","L">>,
           <<"C","r","i","t","i","c","a","l">>,
           <<"w","A","r","N">>,
           <<"d","e","b","u","g">>,
           <<"T","R","A","C","E">>,
           <<"i","n","f","o">>,
           <<"e","r","r">>,
           <<"o","r"," ">>}

RECURSIVE Concats(_)
Concats(n) ==
    IF n = 0 THEN {<<>>}
    ELSE LET prev == Concats(n - 1)
         IN  prev \cup {m \o t : m \in prev, t \in Tokens}
Messages == Concats(MaxTokens)

InitInfer ==
    /\ pc = "infer"
    /\ line \in Messages
    /\ format = "auto"
    /\ entry = NoEntry
    /\ MainIdle

\* level := la.inferLogLevel(message)
InferCall ==
    /\ pc = "infer"
    /\ entry' = inferLogLevel(line)
    /\ pc' = "inferred"
    /\ UNCHANGED <<format, file, scanned, entries, filters, filtered, flags,
                   report, out, line, scanErr>>

NextInfer == InferCall

SpecInfer == InitInfer /\ [][NextInfer]_vars

----------------------------------------------------------------------------
(* A run of main without -follow: the specification Spec. The file is read *)
(* line by line into la.entries, filterEntries is called, and main then    *)
(* either reports the statistics (-stats) or lists the records, cut by     *)
(* -head or -tail. The -stats, -head and -tail flags are drawn where main  *)
(* reads them.                                                             *)

MaxLines == 3
MaxCount == 2

\* the sequences over S of length at most n
RECURSIVE SeqsUpTo(_, _)
SeqsUpTo(S, n) ==
    IF n = 0 THEN {<<>>}
    ELSE LET prev == SeqsUpTo(S, n - 1)
         IN  prev \cup {Append(q, x) : q \in {p \in prev : Len(p) = n - 1}, x \in S}

\* the lines of the file: between them and the two formats every Level
\* bucket, a Level outside the buckets (NOTICE), an empty Level, records
\* with and without a Source, and records with and without a Timestamp
MainLines == {LineGenericNotice, LineJSON, LineSyslogApache, LineSlashDate,
              LineJSONBroken}
MainFormats == {"auto", "syslog"}

FlagError  == <<"e","r","r","o","r">>
FlagDB     == <<"D","B">>
FlagKeyERR == <<"E","R","R">>
FlagTime1  == <<"2","0","2","4","-","0","1","-","0","1"," ","1","0",":","0","0",":","0","0">>   \* 2024-01-01 10:00:00
FlagTime2  == <<"2","0","2","4","-","0","1","-","0","1"," ","1","0",":","0","0",":","0","1">>   \* 2024-01-01 10:00:01
FlagTime3  == <<"2","0","2","4","-","0","1","-","0","1"," ","1","0",":","0","0",":","0","5">>   \* 2024-01-01 10:00:05

MainFilters ==
    {mainFilters(EmptyString, EmptyString, EmptyString, EmptyString, EmptyString),
     mainFilters(FlagError, EmptyString, EmptyString, EmptyString, EmptyString),
     mainFilters(EmptyString, FlagDB, EmptyString, EmptyString, EmptyString),
     mainFilters(EmptyString, EmptyString, FlagKeyERR, EmptyString, EmptyString),
     mainFilters(EmptyString, EmptyString, EmptyString, FlagTime1, FlagTime2)}

Init ==
    /\ pc = "parse"
    /\ format \in MainFormats
    /\ file \in SeqsUpTo(MainLines, MaxLines)
    /\ filters \in MainFilters
    /\ scanned = 0 /\ entries = <<>> /\ filtered = <<>>
    /\ flags = NoFlags /\ report = NoReport /\ out = <<>>
    /\ line = EmptyString /\ entry = NoEntry /\ scanErr = FALSE

\* parseFile: scanner.Scan() gives the next line, which is parsed and appended
ParseFileStep ==
    /\ pc = "parse" /\ scanned < Len(file)
    /\ entries' = Append(entries, parseLine(file[scanned + 1], format))
    /\ scanned' = scanned + 1
    /\ UNCHANGED <<pc, format, file, filters, filtered, flags, report, out,
                   line, entry, scanErr>>

\* parseFile returns at the end of the file; filteredEntries := filterEntries()
FilterEntriesCall ==
    /\ pc = "parse" /\ scanned = Len(file)
    /\ filtered' = filterEntries(entries, filters)
    /\ pc' = "mode"
    /\ UNCHANGED <<format, file, scanned, entries, filters, flags, report, out,
                   line, entry, scanErr>>

\* if *stats { analyzer.showStats() ...: the loop of showStats over la.entries
\* and the figures it prints
ShowStats ==
    /\ pc = "mode"
    /\ flags' = [stats |-> TRUE, head |-> 0, tail |-> 0]
    /\ report' = computeStats(entries) @@ [printedSources |-> <<>>, printedErrors |-> <<>>]
    /\ pc' = "topSources"
    /\ UNCHANGED <<format, file, scanned, entries, filters, filtered, out,
                   line, entry, scanErr>>

\* showStats, on: la.printTopMap(stats.TopSources, 5)
PrintTopSources ==
    /\ pc = "topSources"
    /\ \E order \in Orders(DOMAIN report.TopSources) :
          report' = [report EXCEPT
                        !.printedSources = printTopMap(report.TopSources, TopLimit, order)]
    /\ pc' = "topErrors"
    /\ UNCHANGED <<format, file, scanned, entries, filters, filtered, flags, out,
                   line, entry, scanErr>>

\* showStats, on: la.printTopMap(stats.TopErrors, 5); main returns
PrintTopErrors ==
    /\ pc = "topErrors"
    /\ \E order \in Orders(DOMAIN report.TopErrors) :
          report' = [report EXCEPT
                        !.printedErrors = printTopMap(report.TopErrors, TopLimit, order)]
    /\ pc' = "reported"
    /\ UNCHANGED <<format, file, scanned, entries, filters, filtered, flags, out,
                   line, entry, scanErr>>

\* listing mode: getHead or getTail, then outputEntries
ListEntries ==
    /\ pc = "mode"
    /\ \E head \in -1..MaxCount, tail \in -1..MaxCount :
          /\ flags' = [stats |-> FALSE, head |-> head, tail |-> tail]
          /\ out' = headTail(filtered, head, tail)
    /\ pc' = "listed"
    /\ UNCHANGED <<format, file, scanned, entries, filters, filtered, report,
                   line, entry, scanErr>>

Next ==
    \/ ParseFileStep
    \/ FilterEntriesCall
    \/ ShowStats
    \/ PrintTopSources
    \/ PrintTopErrors
    \/ ListEntries

Spec == Init /\ [][Next]_vars

----------------------------------------------------------------------------
(* The claims about parseLine and inferLogLevel.                           *)

LevelsOrEmpty == KnownLevels \cup {EmptyString}

\* C1: parseLine returns a record whose Raw is the input line exactly, for
\* every line and every format, whichever branch produced it.
C1_RawIsLine ==
    pc = "returned" => entry # NoEntry /\ entry.Raw = line

\* C1 witness: the fallback parser has returned the record of a line that
\* ends in whitespace, with its Message trimmed apart and its Raw whole.
C1_Witness ==
    /\ pc = "returned" /\ format = "auto"
    /\ line = LinePlain /\ TrimSpace(line) # line
    /\ entry = parseGeneric(line) /\ entry.Raw = line

\* C5 (as claimed): every record the parser produces has a Level among
\* ERROR, WARN, INFO, DEBUG and the empty string.
C5_LevelKnownOrEmpty ==
    pc = "returned" => entry.Level \in LevelsOrEmpty

\* whether parseLine extracts the record of the line with the generic matcher
ViaGenericMatcher ==
    /\ ~isJSONLine(line, format)
    /\ format \in {"auto", "generic"}
    /\ MatchGeneric(line) # NoMatch

\* C5 (amended): the Level is among ERROR, WARN, INFO, DEBUG and the empty
\* string, except that a record extracted by the generic matcher carries
\* the bracketed word in upper case and a record read from a JSON object
\* carries its "level" string in upper case, whatever those are.
C5_LevelKnownOrVerbatim ==
    pc = "returned" =>
        IF isJSONLine(line, format)
        THEN LET u == Unmarshal(line)
             IN  IF u.ok /\ HasString(u.obj, KeyLevel)
                 THEN entry.Level = ToUpper(u.obj[KeyLevel].str)
                 ELSE entry.Level = EmptyString
        ELSE IF ViaGenericMatcher
        THEN entry.Level = ToUpper(MatchGeneric(line)[2])
        ELSE entry.Level \in LevelsOrEmpty

\* C5 witness: a generic line with the bracketed word notice has been parsed
\* into a record whose Level is NOTICE.
C5_Witness ==
    /\ pc = "returned" /\ ViaGenericMatcher
    /\ entry.Level \notin LevelsOrEmpty
    /\ entry.Level = ToUpper(MatchGeneric(line)[2])

\* whether w occurs in s, letters compared without regard to case
ContainsFold(s, w) ==
    \E i \in 1..(Len(s) - Len(w) + 1) :
        \A k \in 1..Len(w) : ToLowerChar(s[i + k - 1]) = ToLowerChar(w[k])

\* C6: inferLogLevel returns ERROR when the message contains ERROR, FATAL or
\* CRITICAL in any case; otherwise WARN when it contains WARN; otherwise
\* DEBUG when it contains DEBUG or TRACE; otherwise INFO, wherever the
\* keywords stand in the message.
C6_InferPriority ==
    pc = "inferred" =>
        entry = IF \E w \in {ERROR, FATAL, CRITICAL} : ContainsFold(line, w) THEN ERROR
                ELSE IF ContainsFold(line, WARN) THEN WARN
                ELSE IF \E w \in {DEBUG, TRACE} : ContainsFold(line, w) THEN DEBUG
                ELSE INFO

\* C6 witness: a message that holds a DEBUG keyword before a WARN keyword,
\* and no ERROR keyword, has been inferred as WARN.
C6_Witness ==
    /\ pc = "inferred" /\ entry = WARN
    /\ \E i \in 1..Len(line) :
          /\ ContainsFold(SubSeq(line, 1, i), DEBUG)
          /\ ContainsFold(SubSeq(line, i + 1, Len(line)), WARN)

\* the record of the first of the matchers names[k..] whose shape the line
\* has, written out for the auto order; the fallback parser's if none has
FirstMatchRecord(ln) ==
    IF MatchGeneric(ln) # NoMatch THEN parseWithPattern(ln, "generic", MatchGeneric(ln))
    ELSE IF MatchSyslog(ln) # NoMatch THEN parseWithPattern(ln, "syslog", MatchSyslog(ln))
    ELSE IF MatchApache(ln) # NoMatch THEN parseWithPattern(ln, "apache", MatchApache(ln))
    ELSE IF MatchNginx(ln) # NoMatch THEN parseWithPattern(ln, "nginx", MatchNginx(ln))
    ELSE parseGeneric(ln)

\* the record of an explicit format other than json: its one matcher's, or
\* the fallback parser's when the line has not that shape or the name has
\* no matcher
OneMatcherRecord(ln, fmt) ==
    IF fmt \in PatternNames /\ FindStringSubmatch(fmt, ln) # NoMatch
    THEN parseWithPattern(ln, fmt, FindStringSubmatch(fmt, ln))
    ELSE parseGeneric(ln)

----------------------------------------------------------------------------
(* The claims about the run of main.                                       *)

\* the figures of the statistics report: the counts, the two tables and the
\* time span
Figures(st) == [f \in DOMAIN NewStats(<<>>) |-> st[f]]

\* the number of the records of es whose Level is lv
CountLevel(es, lv) == Cardinality({i \in 1..Len(es) : es[i].Level = lv})

\* C2 (as claimed): in statistics mode every figure showStats reports is
\* computed over exactly the records that pass the Filters.
C2_StatsOverFiltered ==
    pc \in {"topSources", "topErrors", "reported"} =>
        Figures(report) = computeStats(filtered)

\* C4: the four level counts sum to at most TotalLines, and to TotalLines
\* exactly when every record's Level is ERROR, WARN, INFO or DEBUG; each
\* bucket counts the records of its level, and a record of any other Level
\* is counted in TotalLines alone.
C4_LevelCounts ==
    pc \in {"topSources", "topErrors", "reported"} =>
        LET sum == report.ErrorCount + report.WarnCount + report.InfoCount
                   + report.DebugCount
        IN  /\ report.TotalLines = Len(entries)
            /\ sum <= report.TotalLines
            /\ (sum = report.TotalLines) <=>
                   (\A i \in 1..Len(entries) : entries[i].Level \in KnownLevels)
            /\ report.ErrorCount = CountLevel(entries, ERROR)
            /\ report.WarnCount = CountLevel(entries, WARN)
            /\ report.InfoCount = CountLevel(entries, INFO)
            /\ report.DebugCount = CountLevel(entries, DEBUG)

\* C4 witness: the statistics of three records have been reported, one in a
\* bucket, one with the Level NOTICE and one with an empty Level, and the
\* buckets sum to one.
C4_Witness ==
    /\ pc = "reported" /\ report.TotalLines = 3
    /\ report.ErrorCount + report.WarnCount + report.InfoCount + report.DebugCount = 1
    /\ \E i \in 1..Len(entries) : entries[i].Level = EmptyString
    /\ \E i \in 1..Len(entries) : entries[i].Level \notin LevelsOrEmpty

\* the smaller of two numbers
Min(a, b) == IF a < b THEN a ELSE b

\* C8: in listing mode the records handed to the formatter are the first
\* min(head, len) filtered records when head > 0 (whatever tail is), else
\* the last min(tail, len) when tail > 0, else all of them: always a
\* contiguous slice of the filtered sequence, in its order.
C8_HeadTail ==
    pc = "listed" =>
        LET n == Len(filtered)
        IN  /\ out = IF flags.head > 0 THEN SubSeq(filtered, 1, Min(flags.head, n))
                     ELSE IF flags.tail > 0
                     THEN SubSeq(filtered, n - Min(flags.tail, n) + 1, n)
                     ELSE filtered
            /\ \E a \in 1..(n + 1), b \in 0..n : out = SubSeq(filtered, a, b)

\* C8 witness: with head and tail both positive and different, a record
\* dropped by the filter and more filtered records than head, the first
\* head filtered records have been listed, and tail alone would have
\* listed others.
C8_Witness ==
    /\ pc = "listed"
    /\ flags.head > 0 /\ flags.tail > 0 /\ flags.head # flags.tail
    /\ Len(filtered) > flags.head /\ Len(filtered) < Len(entries)
    /\ out = SubSeq(filtered, 1, flags.head)
    /\ out # getTail(filtered, flags.tail)

----------------------------------------------------------------------------
(* The Filter Evaluator on its own: the specification SpecFilter. The      *)
(* records are those the parser makes of FilterLines, the Filters those    *)
(* main builds from every combination of the flag values below. The       *)
(* one-shot path calls filterEntries; the follow path calls matchesFilters *)
(* on one record after the other and emits those that match.               *)

MaxFilterEntries == 2

FilterLines == {LineGeneric, LineGenericNotice, LineJSON, LineSyslog, LineJSONBroken,
                LinePlain}
FilterRecords == {parseLine(l, "auto") : l \in FilterLines}

FilterFlags ==
    {mainFilters(level, source, keyword, startTime, endTime) :
        level \in {EmptyString, FlagError},
        source \in {EmptyString, FlagDB},
        keyword \in {EmptyString, FlagKeyERR},
        startTime \in {EmptyString, FlagTime1, FlagTime3},
        endTime \in {EmptyString, FlagTime1, FlagTime3}}

InitFilter ==
    /\ pc \in {"oneshot", "follow"}
    /\ entries \in SeqsUpTo(FilterRecords, MaxFilterEntries)
    /\ filters \in FilterFlags
    /\ format = "auto" /\ file = <<>> /\ scanned = 0 /\ filtered = <<>>
    /\ flags = NoFlags /\ report = NoReport /\ out = <<>>
    /\ line = EmptyString /\ entry = NoEntry /\ scanErr = FALSE

\* filteredEntries := analyzer.filterEntries()
FilterCall ==
    /\ pc = "oneshot"
    /\ filtered' = filterEntries(entries, filters)
    /\ pc' = "filtered"
    /\ UNCHANGED <<format, file, scanned, entries, filters, flags, report, out,
                   line, entry, scanErr>>

\* the follow path on the next record: if la.matchesFilters(*entry) { output }
MatchCall ==
    /\ pc = "follow" /\ scanned < Len(entries)
    /\ entry' = entries[scanned + 1]
    /\ out' = IF matchesFilters(entries[scanned + 1], filters)
              THEN Append(out, entries[scanned + 1]) ELSE out
    /\ scanned' = scanned + 1
    /\ UNCHANGED <<pc, format, file, entries, filters, filtered, flags, report,
                   line, scanErr>>

NextFilter == FilterCall \/ MatchCall

SpecFilter == InitFilter /\ [][NextFilter]_vars

----------------------------------------------------------------------------
(* The Top-N tables: the specification SpecTop. The file has up to         *)
(* MaxTopLines lines, from six hosts (one more than printTopMap prints)    *)
(* and one line without a source; main has parsed it and stands before     *)
(* showStats. The order in which Go ranges over each table is free.        *)

MaxTopLines == 9

TopHosts == <<"a", "b", "c", "d", "e", "f">>
TopLinePrefix ==
    <<"J","a","n"," ","5"," ","1","0",":","0","0",":","0","0"," ">>   \* Jan 5 10:00:00
TopMessageErrorX == <<"e","r","r","o","r"," ","x">>
TopMessageErrorY == <<"e","r","r","o","r"," ","y">>
TopMessageOk == <<"o","k">>
\* the line of the k-th host: Jan 5 10:00:00 a app: error x
TopLine(k) ==
    TopLinePrefix \o <<TopHosts[k]>> \o <<" ","a","p","p",":"," ">>
        \o (IF k = 1 THEN TopMessageErrorX ELSE IF k = 2 THEN TopMessageErrorY
            ELSE TopMessageOk)

\* c[1] copies of the first host's line, then c[2] of the second's, ...
RECURSIVE TopBlocks(_, _)
TopBlocks(c, k) ==
    IF k > Len(c) THEN <<>>
    ELSE [i \in 1..c[k] |-> TopLine(k)] \o TopBlocks(c, k + 1)

RECURSIVE SumSeq(_, _)
SumSeq(c, k) == IF k > Len(c) THEN 0 ELSE c[k] + SumSeq(c, k + 1)

\* the files of the specification: the blocks of the first n hosts, then
\* the line without a source
TopFiles ==
    {TopBlocks(c, 1) \o <<LinePlain>> :
        c \in UNION {{c \in [1..n -> 1..(MaxTopLines - n)] : SumSeq(c, 1) < MaxTopLines}
                     : n \in 0..Len(TopHosts)}}

TopRecord == [l \in {TopLine(k) : k \in 1..Len(TopHosts)} \cup {LinePlain}
                |-> parseLine(l, "auto")]

InitTop ==
    /\ pc = "mode"
    /\ format = "auto"
    /\ file \in TopFiles
    /\ scanned = Len(file)
    /\ entries = [i \in 1..Len(file) |-> TopRecord[file[i]]]
    /\ filters = NoFilters
    /\ filtered = entries
    /\ flags = NoFlags /\ report = NoReport /\ out = <<>>
    /\ line = EmptyString /\ entry = NoEntry /\ scanErr = FALSE

NextTop == ShowStats \/ PrintTopSources \/ PrintTopErrors

SpecTop == InitTop /\ [][NextTop]_vars

----------------------------------------------------------------------------
(* Follow mode: the specification SpecFollow. followFile opens the file,   *)
(* seeks to its end and loops on scanner.Scan(); other programs append     *)
(* lines to the file at any time. scanned is the number of lines behind    *)
(* the read position of the file. A bufio.Scanner that has once read to    *)
(* the end of its input keeps the io.EOF: every later Scan() returns false *)
(* without reading (scanErr). The steps of the loop are fair, the          *)
(* appending is not.                                                       *)

MaxFollowLines == 2

FollowLines == {LineGeneric, LineJSON, LinePlain}
FollowFilters == {NoFilters,
                  mainFilters(FlagError, EmptyString, EmptyString, EmptyString, EmptyString)}

InitFollow ==
    /\ pc = "open"
    /\ format = "auto"
    /\ file \in SeqsUpTo(FollowLines, 1)
    /\ filters \in FollowFilters
    /\ scanned = 0 /\ entries = <<>> /\ filtered = <<>>
    /\ flags = NoFlags /\ report = NoReport /\ out = <<>>
    /\ line = EmptyString /\ entry = NoEntry /\ scanErr = FALSE

\* another program appends a line to the file
AppendLine ==
    /\ Len(file) < MaxFollowLines
    /\ \E l \in FollowLines : file' = Append(file, l)
    /\ UNCHANGED <<pc, format, scanned, entries, filters, filtered, flags, report,
                   out, line, entry, scanErr>>

\* os.Open, file.Seek(0, 2), bufio.NewScanner(file)
FollowOpen ==
    /\ pc = "open"
    /\ scanned' = Len(file)
    /\ pc' = "scan"
    /\ UNCHANGED <<format, file, entries, filters, filtered, flags, report, out,
                   line, entry, scanErr>>

\* scanner.Scan() returns true with the next line: it is parsed, and
\* printed if it matches the filters
ScanLine ==
    /\ pc = "scan" /\ ~scanErr /\ scanned < Len(file)
    /\ line' = file[scanned + 1]
    /\ \E e \in {parseLine(file[scanned + 1], format)} :
          /\ entry' = e
          /\ out' = IF matchesFilters(e, filters) THEN Append(out, e) ELSE out
    /\ scanned' = scanned + 1
    /\ UNCHANGED <<pc, format, file, entries, filters, filtered, flags, report,
                   scanErr>>

\* scanner.Scan() returns false: the read found the end of the file, now or
\* on an earlier call; the loop goes to sleep
ScanEnd ==
    /\ pc = "scan" /\ (scanErr \/ scanned = Len(file))
    /\ scanErr' = TRUE
    /\ pc' = "sleep"
    /\ UNCHANGED <<format, file, scanned, entries, filters, filtered, flags,
                   report, out, line, entry>>

\* time.Sleep(100 * time.Millisecond) returns and the loop calls Scan() again
Wake ==
    /\ pc = "sleep"
    /\ pc' = "scan"
    /\ UNCHANGED <<format, file, scanned, entries, filters, filtered, flags,
                   report, out, line, entry, scanErr>>

NextFollow ==
    \/ AppendLine
    \/ FollowOpen
    \/ ScanLine
    \/ ScanEnd
    \/ Wake

SpecFollow ==
    /\ InitFollow /\ [][NextFollow]_vars
    /\ WF_vars(FollowOpen) /\ WF_vars(ScanLine) /\ WF_vars(ScanEnd) /\ WF_vars(Wake)

----------------------------------------------------------------------------
(* The claims about the filter, the Top-N tables and follow mode.          *)

\* whether the claim's five conditions include the record e under f
Included(e, f) ==
    /\ f.Level = EmptyString \/ f.Level = e.Level
    /\ f.Source = EmptyString \/ ContainsFold(e.Source, f.Source)
    /\ f.Keyword = EmptyString \/ ContainsFold(e.Message, f.Keyword)
    /\ ~f.StartTime.set \/ e.Timestamp = ZeroTime
          \/ <<f.StartTime.t.day, f.StartTime.t.sec>> = <<e.Timestamp.day, e.Timestamp.sec>>
          \/ Before(f.StartTime.t, e.Timestamp)
    /\ ~f.EndTime.set \/ e.Timestamp = ZeroTime
          \/ <<f.EndTime.t.day, f.EndTime.t.sec>> = <<e.Timestamp.day, e.Timestamp.sec>>
          \/ Before(e.Timestamp, f.EndTime.t)

\* the records of es that the five conditions include, in their order
IncludedOf(es, f) == SelectSeq(es, LAMBDA e : Included(e, f))

\* C3: the filter includes a record exactly when the Level, Source, Keyword,
\* StartTime and EndTime conditions all hold, both time bounds being
\* inclusive and a record with a zero Timestamp passing every time range;
\* filterEntries returns the included records and matchesFilters is true of
\* them alone.
C3_FilterIncludes ==
    /\ pc = "filtered" => filtered = IncludedOf(entries, filters)
    /\ pc = "follow" => out = IncludedOf(SubSeq(entries, 1, scanned), filters)

\* C3 witness: with -start and -end both at the Timestamp of the first of
\* two records, filterEntries has kept that record and dropped the other,
\* which is later.
C3_Witness ==
    /\ pc = "filtered" /\ Len(entries) = 2
    /\ filters.StartTime.set /\ filters.EndTime.set
    /\ entries[1].Timestamp = filters.StartTime.t
    /\ entries[1].Timestamp = filters.EndTime.t
    /\ After(entries[2].Timestamp, filters.EndTime.t)
    /\ filtered = <<entries[1]>>

\* whether the printed lines are a Top-N report of the table: at most
\* TopLimit lines, each a key of the table with its count, no key twice,
\* the counts non-increasing, and no key left out with a greater count than
\* a printed one
IsTopReport(printed, table) ==
    /\ Len(printed) <= TopLimit
    /\ \A i \in 1..Len(printed) :
          /\ printed[i].Key \in DOMAIN table
          /\ printed[i].Value = table[printed[i].Key]
    /\ \A i, j \in 1..Len(printed) : i # j => printed[i].Key # printed[j].Key
    /\ \A i \in 1..(Len(printed) - 1) : printed[i].Value >= printed[i + 1].Value
    /\ \A k \in DOMAIN table \ {printed[i].Key : i \in 1..Len(printed)} :
          \A i \in 1..Len(printed) : table[k] <= printed[i].Value

\* C9: the source table counts the records of each non-empty Source and
\* the error table the records of each Message at the ERROR level, and of
\* either table the report prints at most 5 entries, with non-increasing
\* counts, leaving out no key with a greater count than a printed one.
C9_TopReport ==
    /\ pc \in {"topSources", "topErrors", "reported"} =>
          /\ DOMAIN report.TopSources =
                {entries[i].Source : i \in 1..Len(entries)} \ {EmptyString}
          /\ \A k \in DOMAIN report.TopSources :
                report.TopSources[k] =
                    Cardinality({i \in 1..Len(entries) : entries[i].Source = k})
          /\ DOMAIN report.TopErrors =
                {entries[i].Message : i \in {j \in 1..Len(entries) : entries[j].Level = ERROR}}
          /\ \A k \in DOMAIN report.TopErrors :
                report.TopErrors[k] =
                    Cardinality({i \in 1..Len(entries) :
                                    entries[i].Level = ERROR /\ entries[i].Message = k})
    /\ pc \in {"topErrors", "reported"} =>
          IsTopReport(report.printedSources, report.TopSources)
    /\ pc = "reported" => IsTopReport(report.printedErrors, report.TopErrors)

\* C9 witness: of six sources five have been printed, the first with a
\* greater count than the last, the one left out with a count no greater
\* than the last; a record without a Source is in no line of the table.
C9_Witness ==
    /\ pc = "reported"
    /\ Cardinality(DOMAIN report.TopSources) = 6
    /\ Len(report.printedSources) = TopLimit
    /\ report.printedSources[1].Value > report.printedSources[TopLimit].Value
    /\ \E i \in 1..Len(entries) : entries[i].Source = EmptyString
    /\ Len(report.printedErrors) = 3

\* C10 (as claimed): every line appended to the file after followFile has
\* started is eventually read by the loop.
C10_AppendedIsRead ==
    \A n \in 1..MaxFollowLines :
        (pc # "open" /\ scanned < n /\ n <= Len(file)) ~> (scanned >= n)

----------------------------------------------------------------------------
(* The claim about the generic fallback parser.                            *)

\* whether parseLine hands the line to parseGeneric: the line does not go
\* to the JSON extractor and no matcher tried for the format matches it
ViaFallback ==
    /\ ~isJSONLine(line, format)
    /\ \A k \in 1..Len(patternsFor(format)) :
          \/ patternsFor(format)[k] \notin PatternNames
          \/ FindStringSubmatch(patternsFor(format)[k], line) = NoMatch

\* whether the k-th timestamp format parses against the prefix of its length
PrefixParses(ln, k) ==
    /\ Len(ln) >= Len(timePatterns[k])
    /\ Parse(timePatterns[k], SubSeq(ln, 1, Len(timePatterns[k]))).ok

\* the record the claim gives the fallback parser for the line
ClaimedGeneric(ln) ==
    LET hits == {k \in 1..Len(timePatterns) : PrefixParses(ln, k)}
        first == CHOOSE k \in hits : \A j \in hits : k <= j
        message == IF hits = {} THEN ln ELSE From(ln, Len(timePatterns[first]) + 2)
    IN  [Timestamp |-> IF hits = {} THEN ZeroTime
                       ELSE TimeOf(Parse(timePatterns[first],
                                         SubSeq(ln, 1, Len(timePatterns[first])))),
         Level     |-> inferLogLevel(message),
         Message   |-> message,
         Source    |-> EmptyString,
         Raw       |-> ln]

\* C11 (as claimed): when one of the four timestamp formats parses against
\* the prefix of the line, the fallback parser sets the Timestamp from the
\* first such format and the Message to the rest of the line after that
\* prefix and one separator character, also for a line that is the
\* timestamp alone or the timestamp and one character; when none parses,
\* the Message is the whole line and the Timestamp is unset; the Level is
\* inferLogLevel of that Message.
C11_GenericRemainder ==
    (pc = "returned" /\ ViaFallback) => entry = ClaimedGeneric(line)

----------------------------------------------------------------------------
(* The claim about the two filters.                                        *)

\* the records of es of which matchesFilters is true, in their order and
\* each as often as it occurs
MatchingOf(es, f) == SelectSeq(es, LAMBDA e : matchesFilters(e, f))

\* C12: filterEntries returns the subsequence of la.entries of the records
\* of which matchesFilters is true, in the same order and multiplicity, so
\* the follow path emits of the same records what the one-shot path keeps;
\* filterEntries leaves la.entries unchanged; and filtering its result
\* again with the same Filters returns that result.
C12_SameFilter ==
    /\ [](pc = "filtered" =>
             /\ filtered = MatchingOf(entries, filters)
             /\ filterEntries(filtered, filters) = filtered)
    /\ []((pc = "follow" /\ scanned = Len(entries)) =>
             out = filterEntries(entries, filters))
    /\ [][FilterCall => entries' = entries]_vars

\* C12 witness: under a -level filter, filterEntries has kept both of two
\* different records, in their order.
C12_Witness ==
    /\ pc = "filtered" /\ filters.Level # EmptyString
    /\ Len(entries) = 2 /\ entries[1] # entries[2]
    /\ filtered = entries

=============================================================================
